---- MODULE Spec2Model ----
(***************************************************************************)
(* Model of scripts/generate_occultation_events.py: the progressive search *)
(* over time windows and visibility thresholds, the future-only re-filter, *)
(* the chronological sort, the de-duplication and the normalisation.       *)
(*                                                                         *)
(* Strings that the program compares or parses (timestamps) are sequences  *)
(* of character codes: a digit is its own value 0..9 and a letter is       *)
(* 10 + its position in the alphabet (a = 10 ... z = 35), so that the      *)
(* order of the codes is the order Python uses for str comparison.         *)
(* A timestamp is written "DD" or "DDs": two digits naming the instant     *)
(* 10*D1 + D2, optionally followed by a seconds digit; seconds digit 6     *)
(* stands for a leap second ("...:60"), which astropy parses but cannot    *)
(* convert to a datetime.  The empty sequence is every falsy value         *)
(* (missing key, None, "").                                                *)
(***************************************************************************)
EXTENDS Integers, Sequences, FiniteSets, TLC

VARIABLES
    pc,            \* position in main(): "fetch","tier","refilter","select","write","done"
    wi,            \* index into windows of the for-loop at line 263
    ti,            \* index into thresholds of the for-loop at line 276
    raw,           \* main's raw
    fallback_any,  \* main's fallback_any
    collected,     \* main's collected
    future_only,   \* main's future_only, built one is_future call at a time
    fi,            \* index of the next event of collected that line 307 examines
    clock,         \* the UTC clock, as last read by datetime.now
    output,        \* content of data/occultation_events.json
    writes,        \* number of times the output file has been written
    fetched,       \* history: the windows fetch_occultations was called for
    tried,         \* history: the (window, threshold) pairs evaluated so far
    everFetched,   \* history: some fetch returned at least one event
    allPast,       \* history: every event fetched so far was already past
    refStart,      \* history: clock when the future-only re-filter began
    arg,           \* input of the function under study (function specifications)
    ret            \* its result

vars == <<pc, wi, ti, raw, fallback_any, collected, future_only, fi, clock,
          output, writes, fetched, tried, everFetched, allPast, refStart,
          arg, ret>>

(***************************************************************************)
(* Bounds of the model                                                     *)
(***************************************************************************)
MaxClock == 3
MaxLen == 3
MaxDrop == 1
\* most requests of one pagination attempt the model follows
RequestCap == 52

(***************************************************************************)
(* Program constants                                                       *)
(***************************************************************************)
QUOTA == 5
TOP_N == 10
want_future == 40
max_pages == 50

windows == <<90, 180, 270, 365>>

\* the ladder with its second and third tiers exchanged
thresholds_unordered == << <<15, -12>>, <<10, -6>>, <<12, -8>>, <<8, -3>>, <<5, 0>> >>

thresholds == << <<15, -12>>, <<12, -8>>, <<10, -6>>, <<8, -3>>, <<5, 0>> >>

\* "9999-12-31T00:00:00Z", the sort key of an event without a timestamp
SENTINEL == <<9, 9>>

\* "na", the de-duplication key of an event without a timestamp
NA == <<23, 10>>

(***************************************************************************)
(* Raw events                                                              *)
(***************************************************************************)
Missing == [kind |-> "missing", v |-> 0]
Bad == [kind |-> "bad", v |-> 0]
Num(x) == [kind |-> "num", v |-> x]

NoSky == [ok |-> FALSE, alt |-> 0, sun |-> 0]
Sky(a, s) == [ok |-> TRUE, alt |-> a, sun |-> s]

\* A RawEvent: the keys the program reads, and (sky) what the astronomy
\* library answers for the event's coordinate and time at Elginfield.
Ev(dt, nm, mag, sky) ==
    [date_time |-> dt, datetime |-> <<>>,
     name |-> nm, principal_designation |-> "", alias |-> "",
     ra_star_deg |-> Num(10), dec_star_deg |-> Num(20),
     ra_target_deg |-> Missing, dec_target_deg |-> Missing,
     ra_deg |-> Missing, dec_deg |-> Missing,
     magnitude_drop |-> Num(mag), event_duration |-> Missing,
     sky |-> sky]

evA == Ev(<<0, 3>>, "A", 1, Sky(15, -12))
evA2 == Ev(<<0, 3>>, "A", 2, Sky(15, -12))
evB == Ev(<<0, 4>>, "B", 1, Sky(20, -15))
evC == [Ev(<<0, 3>>, "", 1, Sky(12, -8)) EXCEPT !.principal_designation = "C"]
evD == [Ev(<<>>, "D", 1, Sky(14, -9)) EXCEPT !.datetime = <<0, 1>>]
evE == [Ev(<<0, 2>>, "", 1, Sky(10, -6)) EXCEPT !.alias = "E",
            !.ra_star_deg = Bad, !.ra_target_deg = Num(30), !.dec_target_deg = Num(40)]
evG == Ev(<<0, 2, 6>>, "G", 1, Sky(30, -20))
evH == Ev(<<>>, "", 1, Sky(30, -20))
evI == Ev(<<29, 11, 13>>, "I", 1, Sky(30, -20))
evJ == [Ev(<<9, 9, 1>>, "J", 1, Sky(30, -20)) EXCEPT
            !.ra_star_deg = Missing, !.dec_star_deg = Missing]
evK == [Ev(<<0, 4>>, "K", 1, NoSky) EXCEPT !.magnitude_drop = Missing]
evL == [Ev(<<0, 3>>, "L", 1, Sky(5, 0)) EXCEPT
            !.ra_star_deg = Missing, !.dec_star_deg = Bad,
            !.ra_deg = Num(50), !.dec_deg = Num(60)]
evM == [Ev(<<0, 4>>, "Occultation", 1, Sky(30, -20)) EXCEPT
            !.dec_star_deg = Bad, !.ra_target_deg = Bad, !.dec_target_deg = Num(1)]
evN == [Ev(<<0, 4>>, "N", 1, Sky(8, -3)) EXCEPT !.event_duration = Num(7)]

FillerNames == <<"F01", "F02", "F03", "F04", "F05", "F06",
                 "F07", "F08", "F09", "F10", "F11">>
Fillers == [i \in 1..Len(FillerNames) |->
               Ev(<<5 + (i \div 10), i % 10>>, FillerNames[i], i, Sky(16, -13))]

Core == <<evB, evA, evG, evD, evC, evE>>

\* what is put before and after the chosen core events of a fetched list
Arrangements ==
    { << <<>>, <<>> >>,
      << <<>>, <<evA2>> >>,
      << <<evA2, evL>>, <<>> >>,
      << <<evH, evM, evI>>, <<evJ, evN, evK>> >>,
      << <<>>, Fillers >> }

RECURSIVE Pick(_, _, _)
Pick(s, S, i) ==
    IF i > Len(s) THEN <<>>
    ELSE (IF i \in S THEN <<s[i]>> ELSE <<>>) \o Pick(s, S, i + 1)

\* the core events of a fetched list: all but at most MaxDrop, or at most one
CoreChoices ==
    { S \in SUBSET (1..Len(Core)) :
        Cardinality(S) >= Len(Core) - MaxDrop \/ Cardinality(S) <= 1 }

\* the lists fetch_occultations may return
RawChoices ==
    { a[1] \o Pick(Core, S, 1) \o a[2] : S \in CoreChoices, a \in Arrangements }

(***************************************************************************)
(* String helpers                                                          *)
(***************************************************************************)
\* Python's a <= b on str
RECURSIVE StrLeq(_, _)
StrLeq(a, b) ==
    IF a = <<>> THEN TRUE
    ELSE IF b = <<>> THEN FALSE
    ELSE IF a[1] < b[1] THEN TRUE
    ELSE IF a[1] > b[1] THEN FALSE
    ELSE StrLeq(Tail(a), Tail(b))

Take(s, n) == SubSeq(s, 1, IF Len(s) < n THEN Len(s) ELSE n)

(***************************************************************************)
(* astropy's Time                                                          *)
(***************************************************************************)
\* Time(dt_str) succeeds
TimeParses(s) ==
    /\ Len(s) \in {2, 3}
    /\ \A i \in 1..Len(s) : s[i] \in 0..9

\* the instant Time(dt_str) denotes
Instant(s) == 10 * s[1] + s[2]

\* Time(dt_str).to_datetime(timezone.utc) succeeds (no leap second)
ToDatetimeOk(s) == ~(Len(s) = 3 /\ s[3] = 6)

(***************************************************************************)
(* Field extraction                                                        *)
(***************************************************************************)
parse_dt_str(ev) ==
    IF ev.date_time # <<>> THEN ev.date_time
    ELSE IF ev.datetime # <<>> THEN ev.datetime
    ELSE <<>>

NoCoord == [ok |-> FALSE, ra |-> 0, dec |-> 0]

\* one "if ra_k in ev and dec_k in ev: try: return float(..), float(..)"
PairParses(ra, dec) == ra.kind = "num" /\ dec.kind = "num"

\* the target pair tried before the star pair
parse_ra_dec_target_first(ev) ==
    IF PairParses(ev.ra_target_deg, ev.dec_target_deg)
        THEN [ok |-> TRUE, ra |-> ev.ra_target_deg.v, dec |-> ev.dec_target_deg.v]
    ELSE IF PairParses(ev.ra_star_deg, ev.dec_star_deg)
        THEN [ok |-> TRUE, ra |-> ev.ra_star_deg.v, dec |-> ev.dec_star_deg.v]
    ELSE IF PairParses(ev.ra_deg, ev.dec_deg)
        THEN [ok |-> TRUE, ra |-> ev.ra_deg.v, dec |-> ev.dec_deg.v]
    ELSE NoCoord

parse_ra_dec(ev) ==
    IF PairParses(ev.ra_star_deg, ev.dec_star_deg)
        THEN [ok |-> TRUE, ra |-> ev.ra_star_deg.v, dec |-> ev.dec_star_deg.v]
    ELSE IF PairParses(ev.ra_target_deg, ev.dec_target_deg)
        THEN [ok |-> TRUE, ra |-> ev.ra_target_deg.v, dec |-> ev.dec_target_deg.v]
    ELSE IF PairParses(ev.ra_deg, ev.dec_deg)
        THEN [ok |-> TRUE, ra |-> ev.ra_deg.v, dec |-> ev.dec_deg.v]
    ELSE NoCoord

\* ev.get("name") or ev.get("principal_designation") or ev.get("alias") or "Occultation"
ResolveName(ev) ==
    IF ev.name # "" THEN ev.name
    ELSE IF ev.principal_designation # "" THEN ev.principal_designation
    ELSE IF ev.alias # "" THEN ev.alias
    ELSE "Occultation"

(***************************************************************************)
(* Visibility filter                                                       *)
(***************************************************************************)
\* the loop body without the "except Exception: continue" of lines 183-186:
\* a timestamp that Time() rejects is let through, its future test skipped
IsVisible_lenient(ev, min_alt_deg, sun_alt_max_deg, now) ==
    LET dt_str == parse_dt_str(ev) IN
    /\ dt_str # <<>>
    /\ ~(TimeParses(dt_str) /\ ToDatetimeOk(dt_str) /\ Instant(dt_str) <= now)
    /\ parse_ra_dec(ev).ok
    /\ ev.sky.ok
    /\ ev.sky.alt >= min_alt_deg
    /\ ev.sky.sun <= sun_alt_max_deg

\* "altaz.alt.deg > min_alt_deg" in place of ">=" at line 206
IsVisible_strictalt(ev, min_alt_deg, sun_alt_max_deg, now) ==
    LET dt_str == parse_dt_str(ev) IN
    /\ dt_str # <<>>
    /\ TimeParses(dt_str)
    /\ ~(ToDatetimeOk(dt_str) /\ Instant(dt_str) <= now)
    /\ parse_ra_dec(ev).ok
    /\ ev.sky.ok
    /\ ev.sky.alt > min_alt_deg
    /\ ev.sky.sun <= sun_alt_max_deg

\* the body of filter_visible's loop for one event: TRUE iff ev is appended
IsVisible(ev, min_alt_deg, sun_alt_max_deg, now) ==
    LET dt_str == parse_dt_str(ev) IN
    /\ dt_str # <<>>
    /\ TimeParses(dt_str)
    /\ ~(ToDatetimeOk(dt_str) /\ Instant(dt_str) <= now)
    /\ parse_ra_dec(ev).ok
    /\ ev.sky.ok
    /\ ev.sky.alt >= min_alt_deg
    /\ ev.sky.sun <= sun_alt_max_deg

\* "break" in place of "continue" at line 182: the loop ends at the first
\* event without a timestamp
filter_visible_stop(events, min_alt_deg, sun_alt_max_deg, now) ==
    LET Keep(ev) == IsVisible(ev, min_alt_deg, sun_alt_max_deg, now)
        absent == { i \in 1..Len(events) : parse_dt_str(events[i]) = <<>> }
        stop == IF absent = {} THEN Len(events) + 1
                ELSE CHOOSE i \in absent : \A j \in absent : i <= j
    IN SelectSeq(SubSeq(events, 1, stop - 1), Keep)

filter_visible(events, min_alt_deg, sun_alt_max_deg, now) ==
    LET Keep(ev) == IsVisible(ev, min_alt_deg, sun_alt_max_deg, now)
    IN SelectSeq(events, Keep)

(***************************************************************************)
(* Sort by time                                                            *)
(***************************************************************************)
SortKey(ev) == IF parse_dt_str(ev) # <<>> THEN parse_dt_str(ev) ELSE SENTINEL

\* sorted() is stable: e goes after every element whose key is <= its own
RECURSIVE InsertByKey(_, _)
InsertByKey(s, e) ==
    IF s = <<>> THEN <<e>>
    ELSE IF StrLeq(SortKey(s[Len(s)]), SortKey(e)) THEN Append(s, e)
    ELSE Append(InsertByKey(SubSeq(s, 1, Len(s) - 1), e), s[Len(s)])

RECURSIVE SortFrom(_, _, _)
SortFrom(acc, events, i) ==
    IF i > Len(events) THEN acc
    ELSE SortFrom(InsertByKey(acc, events[i]), events, i + 1)

sort_by_time(events) == SortFrom(<<>>, events, 1)

(***************************************************************************)
(* De-duplication by (datetime, name)                                      *)
(***************************************************************************)
DedupKey(ev) ==
    << IF parse_dt_str(ev) # <<>> THEN parse_dt_str(ev) ELSE NA, ResolveName(ev) >>

\* first-write-wins: "if key not in dedup: dedup[key] = ev"
DictPut_keepfirst(d, ev) ==
    IF \E i \in 1..Len(d) : DedupKey(d[i]) = DedupKey(ev) THEN d ELSE Append(d, ev)

\* dedup[(dt, nm)] = ev on an insertion-ordered dict, kept as the list of its values
DictPut(d, ev) ==
    IF \E i \in 1..Len(d) : DedupKey(d[i]) = DedupKey(ev)
    THEN [i \in 1..Len(d) |-> IF DedupKey(d[i]) = DedupKey(ev) THEN ev ELSE d[i]]
    ELSE Append(d, ev)

RECURSIVE DedupFrom(_, _, _)
DedupFrom(d, events, i) ==
    IF i > Len(events) THEN d
    ELSE DedupFrom(DictPut(d, events[i]), events, i + 1)

Dedup(events) == DedupFrom(<<>>, events, 1)

(***************************************************************************)
(* Future-only test and normalisation                                      *)
(***************************************************************************)
is_future(ev, now) ==
    LET dt == parse_dt_str(ev) IN
    /\ dt # <<>>
    /\ TimeParses(dt)
    /\ ToDatetimeOk(dt)
    /\ Instant(dt) > now

\* a substituted default: ev.get("magnitude_drop", 0)
normalize_default(ev) ==
    [name |-> ResolveName(ev),
     datetime_utc |-> parse_dt_str(ev),
     magnitude_drop |-> IF ev.magnitude_drop.kind = "num" THEN ev.magnitude_drop ELSE Num(0),
     duration |-> ev.event_duration,
     ra_deg |-> IF parse_ra_dec(ev).ok THEN Num(parse_ra_dec(ev).ra) ELSE Missing,
     dec_deg |-> IF parse_ra_dec(ev).ok THEN Num(parse_ra_dec(ev).dec) ELSE Missing]

normalize(ev) ==
    [name |-> ResolveName(ev),
     datetime_utc |-> parse_dt_str(ev),
     magnitude_drop |-> ev.magnitude_drop,
     duration |-> ev.event_duration,
     ra_deg |-> IF parse_ra_dec(ev).ok THEN Num(parse_ra_dec(ev).ra) ELSE Missing,
     dec_deg |-> IF parse_ra_dec(ev).ok THEN Num(parse_ra_dec(ev).dec) ELSE Missing]

\* "name = ev.pop('name', None) or ..." in place of ev.get: the call empties
\* the event's name
normalize_call_pop(ev) == [out |-> normalize(ev), ev |-> [ev EXCEPT !.name = ""]]

\* one call of normalize: its result, and the event as the call leaves it
\* (every statement of normalize reads ev, none assigns to it)
normalize_call(ev) == [out |-> normalize(ev), ev |-> ev]

NormalizeAll(events) == [i \in 1..Len(events) |-> normalize(events[i])]

(***************************************************************************)
(* main()                                                                  *)
(***************************************************************************)
\* "len(visible) > 5"
QuotaMet_strict(events) == Len(events) > QUOTA

\* len(visible) >= 5, the quota test of line 288
QuotaMet(events) == Len(events) >= QUOTA

\* the loop over windows without its break
LoopDone_never(events) == FALSE

\* len(collected) >= 5, the test of line 292 that leaves the loop over windows
LoopDone(events) == Len(events) >= QUOTA

\* filter_visible, sort_by_time and the de-dup loop of lines 277-286
Survivors(events, th, now) ==
    Dedup(sort_by_time(filter_visible(events, th[1], th[2], now)))

\* every event of a fetched list is already past when it arrives
AlreadyPast(events, now) ==
    \A i \in 1..Len(events) :
        LET dt == parse_dt_str(events[i]) IN
        dt # <<>> /\ TimeParses(dt) /\ ToDatetimeOk(dt) /\ Instant(dt) <= now

NoResult == [fn |-> "none", now |-> 0, out |-> <<>>]

Init ==
    /\ pc = "fetch"
    /\ wi = 1
    /\ ti = 1
    /\ raw = <<>>
    /\ fallback_any = <<>>
    /\ collected = <<>>
    /\ future_only = <<>>
    /\ fi = 1
    /\ clock = 0
    /\ output = <<"previous result">>
    /\ writes = 0
    /\ fetched = <<>>
    /\ tried = <<>>
    /\ everFetched = FALSE
    /\ allPast = TRUE
    /\ refStart = 0
    /\ arg = <<>>
    /\ ret = NoResult

\* the for-loop over windows moves on (line 263), or ends and line 307 starts
NextWindow ==
    IF wi < Len(windows)
    THEN /\ wi' = wi + 1
         /\ pc' = "fetch"
         /\ refStart' = refStart
    ELSE /\ wi' = wi
         /\ pc' = "refilter"
         /\ refStart' = clock'

\* the call of line 268 without its try/except: the exception leaves main()
FetchRaises_escapes ==
    /\ pc = "fetch"
    /\ fetched' = Append(fetched, wi)
    /\ pc' = "crashed"
    /\ UNCHANGED <<wi, ti, raw, fallback_any, collected, future_only, fi, clock,
                   output, writes, tried, everFetched, allPast, refStart, arg, ret>>

\* "break" in place of "continue" at line 271
FetchRaises_break ==
    /\ pc = "fetch"
    /\ fetched' = Append(fetched, wi)
    /\ pc' = "refilter"
    /\ refStart' = clock
    /\ UNCHANGED <<wi, ti, raw, fallback_any, collected, future_only, fi, clock,
                   output, writes, tried, everFetched, allPast, arg, ret>>

\* fetch_occultations raises: line 269-271, continue
FetchRaises ==
    /\ pc = "fetch"
    /\ fetched' = Append(fetched, wi)
    /\ clock' = clock
    /\ NextWindow
    /\ UNCHANGED <<ti, raw, fallback_any, collected, future_only, fi, output,
                   writes, tried, everFetched, allPast, arg, ret>>

\* fetch_occultations returns a list: lines 268 and 274
FetchReturns ==
    /\ pc = "fetch"
    /\ \E r \in RawChoices :
        /\ raw' = r
        /\ fallback_any' = Take(sort_by_time(r), TOP_N)
        /\ everFetched' = (everFetched \/ r # <<>>)
        /\ allPast' = (allPast /\ AlreadyPast(r, clock))
    /\ fetched' = Append(fetched, wi)
    /\ ti' = 1
    /\ pc' = "tier"
    /\ UNCHANGED <<wi, collected, future_only, fi, clock, output, writes, tried,
                   refStart, arg, ret>>

\* the fetch moved inside the loop over thresholds: one fetch per tier
EvalTier_refetch ==
    /\ pc = "tier"
    /\ \E now \in clock..MaxClock, r \in RawChoices :
        LET visible == Survivors(r, thresholds[ti], now) IN
        /\ raw' = r
        /\ clock' = now
        /\ tried' = Append(tried, [w |-> wi, t |-> ti, met |-> Len(visible) >= QUOTA])
        /\ IF Len(visible) >= QUOTA
           THEN collected' = visible /\ ti' = ti /\ wi' = wi
                /\ pc' = "refilter" /\ refStart' = clock'
           ELSE /\ collected' = collected
                /\ IF ti < Len(thresholds)
                   THEN ti' = ti + 1 /\ wi' = wi /\ pc' = "tier" /\ refStart' = refStart
                   ELSE ti' = ti /\ NextWindow
    /\ fetched' = Append(fetched, wi)
    /\ UNCHANGED <<fallback_any, future_only, fi, output, writes,
                   everFetched, allPast, arg, ret>>

\* one pass of the for-loop over thresholds: lines 276-293
EvalTier ==
    /\ pc = "tier"
    /\ \E now \in clock..MaxClock :
        LET visible == Survivors(raw, thresholds[ti], now) IN
        /\ clock' = now
        /\ tried' = Append(tried, [w |-> wi, t |-> ti, met |-> Len(visible) >= QUOTA])
        /\ IF QuotaMet(visible)
           THEN /\ collected' = visible
                /\ ti' = ti
                /\ IF LoopDone(collected')
                   THEN wi' = wi /\ pc' = "refilter" /\ refStart' = clock'
                   ELSE NextWindow
           ELSE /\ collected' = collected
                /\ IF ti < Len(thresholds)
                   THEN ti' = ti + 1 /\ wi' = wi /\ pc' = "tier" /\ refStart' = refStart
                   ELSE /\ ti' = ti
                        /\ IF LoopDone(collected')
                           THEN wi' = wi /\ pc' = "refilter" /\ refStart' = clock'
                           ELSE NextWindow
    /\ UNCHANGED <<raw, fallback_any, future_only, fi, output, writes, fetched,
                   everFetched, allPast, arg, ret>>

\* one element of the comprehension of line 307; is_future reads the clock
Refilter ==
    /\ pc = "refilter"
    /\ fi <= Len(collected)
    /\ \E now \in clock..MaxClock :
        /\ clock' = now
        /\ future_only' = IF is_future(collected[fi], now)
                          THEN Append(future_only, collected[fi])
                          ELSE future_only
    /\ fi' = fi + 1
    /\ UNCHANGED <<pc, wi, ti, raw, fallback_any, collected, output, writes,
                   fetched, tried, everFetched, allPast, refStart, arg, ret>>

\* the fallback the comment of line 273 announces:
\* "collected = future_only or collected or fallback_any"
FinalSelection_fallback(future, all) ==
    IF future # <<>> THEN future
    ELSE IF all # <<>> THEN all ELSE fallback_any

\* "collected = future_only if len(future_only) >= 5 else collected"
FinalSelection_keepall(future, all) ==
    IF Len(future) >= QUOTA THEN future ELSE all

\* lines 309-313
FinalSelection(future, all) ==
    IF Len(future) >= QUOTA THEN future
    ELSE IF future # <<>> THEN future ELSE all

\* the selection also dumps its result to the output file
Select_writes ==
    /\ pc = "refilter"
    /\ fi > Len(collected)
    /\ collected' = (IF future_only # <<>> THEN future_only ELSE collected)
    /\ output' = [i \in 1..Len(collected') |-> normalize(collected'[i])]
    /\ writes' = writes + 1
    /\ pc' = "write"
    /\ UNCHANGED <<wi, ti, raw, fallback_any, future_only, fi, clock,
                   fetched, tried, everFetched, allPast, refStart, arg, ret>>

Select ==
    /\ pc = "refilter"
    /\ fi > Len(collected)
    /\ collected' = FinalSelection(future_only, collected)
    /\ pc' = "write"
    /\ UNCHANGED <<wi, ti, raw, fallback_any, future_only, fi, clock, output,
                   writes, fetched, tried, everFetched, allPast, refStart, arg, ret>>

\* "[-10:]" in place of "[:10]"
final_events_last(events) ==
    LET sorted == sort_by_time(events) IN
    [i \in 1..Len(Take(sorted, TOP_N)) |->
        normalize(sorted[Len(sorted) - Len(Take(sorted, TOP_N)) + i])]

\* lines 316-320
final_events(events) == NormalizeAll(Take(sort_by_time(events), TOP_N))

Write ==
    /\ pc = "write"
    /\ output' = final_events(collected)
    /\ writes' = writes + 1
    /\ pc' = "done"
    /\ UNCHANGED <<wi, ti, raw, fallback_any, collected, future_only, fi, clock,
                   fetched, tried, everFetched, allPast, refStart, arg, ret>>

Next ==
    \/ FetchRaises
    \/ FetchReturns
    \/ EvalTier
    \/ Refilter
    \/ Select
    \/ Write

Spec == Init /\ [][Next]_vars

(***************************************************************************)
(* The functions on their own: one call of sort_by_time, of the de-dup     *)
(* loop or of filter_visible on an arbitrary list of at most MaxLen events *)
(***************************************************************************)
Pool == {evA, evA2, evB, evC, evD, evE, evG, evH, evI, evJ, evK, evL, evM, evN}

SeqsUpTo(S, n) == UNION { [1..k -> S] : k \in 0..n }

FnInit ==
    /\ pc = "call"
    /\ arg \in SeqsUpTo(Pool, MaxLen)
    /\ ret = NoResult
    /\ wi = 1
    /\ ti = 1
    /\ raw = <<>>
    /\ fallback_any = <<>>
    /\ collected = <<>>
    /\ future_only = <<>>
    /\ fi = 1
    /\ clock = 0
    /\ output = <<"previous result">>
    /\ writes = 0
    /\ fetched = <<>>
    /\ tried = <<>>
    /\ everFetched = FALSE
    /\ allPast = TRUE
    /\ refStart = 0

FnFrame ==
    /\ pc' = "ret"
    /\ UNCHANGED <<wi, ti, raw, fallback_any, collected, future_only, fi, clock,
                   output, writes, fetched, tried, everFetched, allPast, refStart,
                   arg>>

CallSort ==
    /\ pc = "call"
    /\ ret' = [fn |-> "sort_by_time", now |-> 0, out |-> sort_by_time(arg)]
    /\ FnFrame

CallDedup ==
    /\ pc = "call"
    /\ ret' = [fn |-> "dedup", now |-> 0, out |-> Dedup(arg)]
    /\ FnFrame

\* filter_visible at every tier of the ladder, all at the same evaluation time
CallFilter ==
    /\ pc = "call"
    /\ \E now \in 0..MaxClock :
        ret' = [fn |-> "filter_visible", now |-> now,
                out |-> [t \in 1..Len(thresholds) |->
                            filter_visible(arg, thresholds[t][1], thresholds[t][2], now)]]
    /\ FnFrame

\* lines 277-286 at one tier: filter_visible, sort_by_time and the de-dup loop
CallSurvivors ==
    /\ pc = "call"
    /\ \E now \in 0..MaxClock, t \in 1..Len(thresholds) :
        ret' = [fn |-> "survivors", now |-> now, tier |-> t,
                out |-> Survivors(arg, thresholds[t], now)]
    /\ FnFrame

\* normalize called twice on one event; ev is the event as the calls leave it
CallNormalize ==
    /\ pc = "call"
    /\ Len(arg) = 1
    /\ LET first == normalize_call(arg[1])
           second == normalize_call(first.ev)
       IN ret' = [fn |-> "normalize", now |-> 0, ev |-> second.ev,
                  out |-> <<first.out, second.out>>]
    /\ FnFrame

CoordKeys == {"ra_star_deg", "dec_star_deg", "ra_target_deg", "dec_target_deg",
              "ra_deg", "dec_deg"}

\* an event whose coordinate keys are each missing, malformed or a number
CoordEvent(c) ==
    [evA EXCEPT !.ra_star_deg = c["ra_star_deg"], !.dec_star_deg = c["dec_star_deg"],
                !.ra_target_deg = c["ra_target_deg"], !.dec_target_deg = c["dec_target_deg"],
                !.ra_deg = c["ra_deg"], !.dec_deg = c["dec_deg"]]

\* the value under key k: missing, malformed, or a number telling the keys apart
CoordValue(k, kind) ==
    IF kind = "missing" THEN Missing
    ELSE IF kind = "bad" THEN Bad
    ELSE Num(CASE k = "ra_star_deg" -> 1 [] k = "dec_star_deg" -> 2
               [] k = "ra_target_deg" -> 3 [] k = "dec_target_deg" -> 4
               [] k = "ra_deg" -> 5 [] OTHER -> 6)

CallParseRaDec ==
    /\ pc = "call"
    /\ arg = <<>>
    /\ \E kinds \in [CoordKeys -> {"missing", "bad", "num"}] :
        LET ev == CoordEvent([k \in CoordKeys |-> CoordValue(k, kinds[k])])
        IN ret' = [fn |-> "parse_ra_dec", now |-> 0, ev |-> ev, out |-> parse_ra_dec(ev)]
    /\ FnFrame

FnNext ==
    \/ CallSort
    \/ CallDedup
    \/ CallFilter
    \/ CallSurvivors
    \/ CallNormalize
    \/ CallParseRaDec

FnSpec == FnInit /\ [][FnNext]_vars

(***************************************************************************)
(* One pagination attempt: try_once inside fetch_occultations.  The state  *)
(* of the attempt is held in ret: the page to request next, the running    *)
(* count of future events, and the number of requests issued so far.       *)
(***************************************************************************)
\* the "next" field of a response: absent or null, an integer, or a
\* non-empty value of another type (a URL string)
NextNone == [kind |-> "none", v |-> 0]
NextInt(k) == [kind |-> "int", v |-> k]
NextStr == [kind |-> "str", v |-> 0]
NextVals == {NextNone, NextStr} \cup { NextInt(k) : k \in 0..(max_pages + 1) }

\* "not next_val"
Falsy(next_val) == next_val.kind = "none" \/ (next_val.kind = "int" /\ next_val.v = 0)

\* how many events of one page lie in the future
PageFutures == {0, 20}

TryOnceInit ==
    /\ pc = "while"
    /\ arg = <<>>
    /\ ret = [fn |-> "try_once", now |-> 0, out |-> <<>>,
              page |-> 1, future_count |-> 0, requests |-> 0]
    /\ wi = 1
    /\ ti = 1
    /\ raw = <<>>
    /\ fallback_any = <<>>
    /\ collected = <<>>
    /\ future_only = <<>>
    /\ fi = 1
    /\ clock = 0
    /\ output = <<"previous result">>
    /\ writes = 0
    /\ fetched = <<>>
    /\ tried = <<>>
    /\ everFetched = FALSE
    /\ allPast = TRUE
    /\ refStart = 0

TryOnceFrame ==
    UNCHANGED <<wi, ti, raw, fallback_any, collected, future_only, fi, clock,
                output, writes, fetched, tried, everFetched, allPast, refStart,
                arg>>

\* "while page <= max_pages" is false: return all_events
WhileExit ==
    /\ pc = "while"
    /\ ret.page > max_pages
    /\ pc' = "returned"
    /\ UNCHANGED ret
    /\ TryOnceFrame

\* the request is issued and raise_for_status, r.json() or data.get raises:
\* the exception leaves try_once
RequestRaises ==
    /\ pc = "while"
    /\ ret.page <= max_pages
    /\ ret.requests < RequestCap
    /\ ret' = [ret EXCEPT !.requests = @ + 1]
    /\ pc' = "failed"
    /\ TryOnceFrame

\* the request is issued and answered with a page holding f future events
\* and a "next" field
RequestReturns ==
    /\ pc = "while"
    /\ ret.page <= max_pages
    /\ ret.requests < RequestCap
    /\ \E f \in PageFutures, next_val \in NextVals :
        LET future_count == ret.future_count + f
            break == future_count >= want_future \/ Falsy(next_val)
        IN
        /\ ret' = [ret EXCEPT !.requests = @ + 1,
                              !.future_count = future_count,
                              !.page = IF break THEN @
                                       ELSE IF next_val.kind = "int" THEN next_val.v
                                       ELSE @ + 1]
        /\ pc' = IF break THEN "returned" ELSE "while"
    /\ TryOnceFrame

TryOnceNext ==
    \/ WhileExit
    \/ RequestRaises
    \/ RequestReturns

TryOnceSpec == TryOnceInit /\ [][TryOnceNext]_vars

(***************************************************************************)
(* Properties                                                              *)
(***************************************************************************)
\* some evaluated (window, threshold) pair left at least QUOTA survivors
Satisfied == \E k \in 1..Len(tried) : tried[k].met

\* the search loop has just ended
LoopExit == pc = "refilter" /\ fi = 1

\* fetch_occultations raised for window w
Raised(w) ==
    /\ \E k \in 1..Len(fetched) : fetched[k] = w
    /\ \A k \in 1..Len(tried) : tried[k].w # w

\* C1: the pairs are evaluated window by window (in increasing order of
\* window), each window from the strictest tier down the ladder one tier at a
\* time and left only after the loosest tier; no pair before the last one met
\* the quota; and when the loop ends on a pair that met it, the selected set
\* is the de-duplicated visible set of that pair, with at least 5 events.
C1_SelectsFirstQuotaPair ==
    /\ \A k \in 1..Len(tried) :
        /\ tried[k].t = IF k > 1 /\ tried[k - 1].w = tried[k].w
                        THEN tried[k - 1].t + 1 ELSE 1
        /\ (k > 1 /\ tried[k - 1].w # tried[k].w) =>
              (tried[k - 1].w < tried[k].w /\ tried[k - 1].t = Len(thresholds))
        /\ tried[k].met => k = Len(tried)
    /\ (LoopExit /\ Satisfied) =>
        LET last == tried[Len(tried)] IN
        /\ last.w = wi
        /\ collected = Survivors(raw, thresholds[last.t], clock)
        /\ Len(collected) >= QUOTA

\* the quota is first met in a later window, below the strictest tier
C1_Witness ==
    /\ LoopExit
    /\ Satisfied
    /\ tried[Len(tried)].w >= 2
    /\ tried[Len(tried)].t >= 3
    /\ Len(collected) = QUOTA

\* C2: once a pair has met the quota, no step of the run evaluates another
\* threshold or fetches another window.
C2_SatisfiedStopsSearch ==
    [][Satisfied => (tried' = tried /\ fetched' = fetched)]_vars

\* a run that met the quota in the first window and ended, the other windows
\* never fetched
C2_Witness ==
    /\ pc = "done"
    /\ Satisfied
    /\ fetched = <<1>>
    /\ Len(tried) < Len(thresholds)

\* C3: when the loop ends with no pair having met the quota, the chosen set
\* is the sorted, trimmed copy of the most recently fetched raw list, and it
\* is empty only if no raw data was ever fetched.
C3_FallbackIsLastRawSet ==
    (LoopExit /\ ~Satisfied) =>
        /\ collected = fallback_any
        /\ collected = <<>> => ~everFetched

\* C4: when the future-only set is not empty, every event of the final output
\* has a timestamp that parses, converts, and is strictly later than the time
\* at which the re-filter began; the output then has exactly as many events as
\* the future-only set (at most 10 of them).
C4_FutureOnlyOutput ==
    (pc = "done" /\ future_only # <<>>) =>
        /\ \A i \in 1..Len(output) :
            LET s == output[i].datetime_utc IN
            s # <<>> /\ TimeParses(s) /\ ToDatetimeOk(s) /\ Instant(s) > refStart
        /\ Len(output) = Len(Take(future_only, TOP_N))

\* the quota was met, but fewer than 5 (and at least one) of the chosen events
\* are still in the future at the re-filter: only those are published
C4_Witness ==
    /\ pc = "done"
    /\ Satisfied
    /\ Len(future_only) \in 1..(QUOTA - 1)
    /\ Len(output) = Len(future_only)

\* C5: when at least one event was fetched and every fetched event was
\* already past, the future-only set is empty and the output is not.
C5_ScenarioDRepublishesPast ==
    (pc = "done" /\ everFetched /\ allPast) =>
        (future_only = <<>> /\ output # <<>>)

\* C6: when no fetch ever returned an event, the run goes on to its end (no
\* step is stuck before "done") and the file then holds the empty sequence,
\* written once.
C6_TotalFailurePublishesEmpty ==
    /\ (pc # "done" /\ ~everFetched) => ENABLED Next
    /\ (pc = "done" /\ ~everFetched) => (output = <<>> /\ writes = 1)

\* all four windows were fetched, some raised and some returned nothing
C6_Witness ==
    /\ pc = "done"
    /\ ~everFetched
    /\ Len(fetched) = Len(windows)
    /\ \E w \in 1..Len(windows) : Raised(w)
    /\ tried # <<>>
    /\ output = <<>>

\* C7: the windows are fetched in order without a gap; while the loop is at a
\* fetch, every earlier window has been fetched and the quota is not met; and
\* the search is over only when the quota is met or all four windows have
\* been fetched.  A window whose fetch raised is not evaluated at any tier.
C7_FetchFailureTolerated ==
    /\ \A k \in 1..Len(fetched) : fetched[k] = k
    /\ pc = "fetch" => (Len(fetched) = wi - 1 /\ ~Satisfied)
    /\ pc \notin {"fetch", "tier"} => (Satisfied \/ Len(fetched) = Len(windows))

\* the fetch of a window raised and the set of the next window was selected
C7_Witness ==
    /\ pc = "done"
    /\ Satisfied
    /\ \E w \in 1..(Len(windows) - 1) :
        Raised(w) /\ tried[Len(tried)].w = w + 1
    /\ output # <<>>

KeysDistinct(events) ==
    \A i, j \in 1..Len(events) :
        DedupKey(events[i]) = DedupKey(events[j]) => i = j

\* events[i] is the last of `among` positions of events with its key
LastOfKey(events, among, i) ==
    /\ i \in among
    /\ \A m \in among : m > i => DedupKey(events[m]) # DedupKey(events[i])

\* C8: the de-dup loop leaves one entry per (timestamp string, resolved name)
\* key of its input, and that entry is the record that came last in the input;
\* through lines 277-286 as a whole, the survivors of a raw list have distinct
\* keys, and each is the last record of the raw list, among those passing the
\* filter, with its key.
C8_DedupKeepsLast ==
    /\ (pc = "ret" /\ ret.fn = "dedup") =>
        /\ KeysDistinct(ret.out)
        /\ \A i \in 1..Len(arg) :
            \E j \in 1..Len(ret.out) : DedupKey(ret.out[j]) = DedupKey(arg[i])
        /\ \A j \in 1..Len(ret.out) :
            \E i \in 1..Len(arg) :
                arg[i] = ret.out[j] /\ LastOfKey(arg, 1..Len(arg), i)
    /\ (pc = "ret" /\ ret.fn = "survivors") =>
        LET th == thresholds[ret.tier]
            vis == { i \in 1..Len(arg) : IsVisible(arg[i], th[1], th[2], ret.now) }
        IN
        /\ KeysDistinct(ret.out)
        /\ \A i \in vis :
            \E j \in 1..Len(ret.out) : DedupKey(ret.out[j]) = DedupKey(arg[i])
        /\ \A j \in 1..Len(ret.out) :
            \E i \in vis : arg[i] = ret.out[j] /\ LastOfKey(arg, vis, i)

\* two different records with the same key: one entry, the later record
C8_Witness ==
    /\ pc = "ret"
    /\ ret.fn = "survivors"
    /\ Len(arg) = 3
    /\ arg[1] # arg[3]
    /\ DedupKey(arg[1]) = DedupKey(arg[3])
    /\ ret.out = <<arg[3], arg[2]>>

Count(events, e) == Cardinality({ i \in 1..Len(events) : events[i] = e })

\* C9: sort_by_time returns a permutation of its input in which the
\* timestamp strings do not decrease, every event without a timestamp comes
\* after every event with one, and events with equal keys keep their order.
C9_SortTotalOrder ==
    (pc = "ret" /\ ret.fn = "sort_by_time") =>
        LET out == ret.out IN
        /\ Len(out) = Len(arg)
        /\ \A e \in Pool : Count(out, e) = Count(arg, e)
        /\ \A i, j \in 1..Len(out) :
            (i < j /\ parse_dt_str(out[i]) # <<>> /\ parse_dt_str(out[j]) # <<>>) =>
                StrLeq(parse_dt_str(out[i]), parse_dt_str(out[j]))
        /\ \A i, j \in 1..Len(out) :
            (parse_dt_str(out[i]) # <<>> /\ parse_dt_str(out[j]) = <<>>) => i < j
        /\ \A i, j \in 1..Len(arg) :
            (i < j /\ SortKey(arg[i]) = SortKey(arg[j]) /\ arg[i] # arg[j]) =>
                \E a, b \in 1..Len(out) : a < b /\ out[a] = arg[i] /\ out[b] = arg[j]

Range(events) == { events[i] : i \in 1..Len(events) }

\* C10: at one evaluation time, the events passing the filter at a tier of
\* the ladder all pass at every later tier, so neither the number of visible
\* events nor the number of de-duplicated survivors decreases down the ladder.
C10_EscalationMonotone ==
    (pc = "ret" /\ ret.fn = "filter_visible") =>
        \A i, j \in 1..Len(thresholds) :
            i < j =>
                /\ Range(ret.out[i]) \subseteq Range(ret.out[j])
                /\ Len(ret.out[i]) <= Len(ret.out[j])
                /\ Len(Dedup(sort_by_time(ret.out[i])))
                      <= Len(Dedup(sort_by_time(ret.out[j])))

\* the visible set grows strictly twice on the way down the ladder
C10_Witness ==
    /\ pc = "ret"
    /\ ret.fn = "filter_visible"
    /\ Len(ret.out[1]) >= 1
    /\ Len(ret.out[1]) < Len(ret.out[3])
    /\ Len(ret.out[3]) < Len(ret.out[5])

\* C11: the published output has min(10, size of the final set) events, all
\* different and each the normalisation of an event of the final set, in
\* non-decreasing order of timestamp string; no event of the final set that
\* is left out has a timestamp string below that of a published event.
C11_TopTenEarliest ==
    pc = "done" =>
        /\ Len(output) <= TOP_N
        /\ Len(output) = Len(Take(collected, TOP_N))
        /\ \A i \in 1..Len(output) :
            \E k \in 1..Len(collected) : output[i] = normalize(collected[k])
        /\ \A i, j \in 1..Len(output) :
            i < j => /\ output[i] # output[j]
                     /\ StrLeq(output[i].datetime_utc, output[j].datetime_utc)
        /\ \A k \in 1..Len(collected) :
            normalize(collected[k]) \notin Range(output) =>
                \A i \in 1..Len(output) :
                    StrLeq(output[i].datetime_utc, SortKey(collected[k]))

\* more than 10 events survive and exactly 10 are published
C11_Witness ==
    /\ pc = "done"
    /\ Len(collected) > TOP_N
    /\ Len(output) = TOP_N

\* C12: every event of the final output has a timestamp that is present and
\* that Time() parses, on every path (quota met, nothing selected, or revert
\* to the pre-filter set).
C12_OutputTimestampsResolvable ==
    pc = "done" =>
        \A i \in 1..Len(output) :
            output[i].datetime_utc # <<>> /\ TimeParses(output[i].datetime_utc)

\* the pre-filter set is published (no event of it is in the future any more)
\* and the fetched list held an event without a usable timestamp
C12_Witness ==
    /\ pc = "done"
    /\ future_only = <<>>
    /\ output # <<>>
    /\ \E i \in 1..Len(raw) :
        parse_dt_str(raw[i]) = <<>> \/ ~TimeParses(parse_dt_str(raw[i]))

\* C13: the output file is not written before the last step of the run, which
\* writes it once, after the search loop and the re-filter; until then it
\* holds the previous result.
C13_SingleWrite ==
    /\ writes = IF pc = "done" THEN 1 ELSE 0
    /\ pc # "done" => output = <<"previous result">>
    /\ pc = "done" => output = final_events(collected)

\* a run that searched all four windows down the whole ladder, then wrote
C13_Witness ==
    /\ pc = "done"
    /\ writes = 1
    /\ Len(tried) = Len(windows) * Len(thresholds)
    /\ output # <<"previous result">>

\* C17: a step changes raw only by fetching, a fetch is for the current
\* window, which was not fetched before, and there are at most 4 fetches: all
\* the tiers tried for a window are evaluated on the one list fetched for it.
C17_OneFetchPerWindow ==
    [][/\ raw' # raw => fetched' # fetched
       /\ fetched' # fetched =>
            /\ fetched' = Append(fetched, wi)
            /\ \A k \in 1..Len(fetched) : fetched[k] # wi
       /\ (pc = "tier" /\ pc' = "tier") => (raw' = raw /\ wi' = wi)
       /\ Len(fetched') <= Len(windows)]_vars

\* the loosest tier of the fourth window is about to be evaluated, after
\* nineteen evaluations and four fetches
C17_Witness ==
    /\ pc = "tier"
    /\ wi = Len(windows)
    /\ ti = Len(thresholds)
    /\ Len(tried) = Len(windows) * Len(thresholds) - 1
    /\ fetched = <<1, 2, 3, 4>>

C14_NormalizePure ==
    (pc = "ret" /\ ret.fn = "normalize") =>
        LET ev == arg[1]
            n == ret.out[1]
        IN
        /\ ret.ev = ev
        /\ ret.out[2] = n
        /\ DOMAIN n = {"name", "datetime_utc", "magnitude_drop", "duration",
                       "ra_deg", "dec_deg"}
        /\ n.magnitude_drop = ev.magnitude_drop
        /\ n.duration = ev.event_duration
        /\ n.datetime_utc \in {ev.date_time, ev.datetime}
        /\ (ev.date_time = <<>> /\ ev.datetime = <<>>) => n.datetime_utc = <<>>
        /\ n.name # ""
        /\ n.name \in {ev.name, ev.principal_designation, ev.alias, "Occultation"}
        /\ (n.ra_deg = Missing) <=> (n.dec_deg = Missing)
        /\ (\A k \in CoordKeys : ev[k].kind # "num") => n.ra_deg = Missing

\* an event without magnitude drop, duration and name: all come out absent,
\* the name as the fallback label
C14_Witness ==
    /\ pc = "ret"
    /\ ret.fn = "normalize"
    /\ arg[1].name = ""
    /\ arg[1].event_duration = Missing
    /\ ret.out[1].duration = Missing
    /\ ret.out[1].datetime_utc = <<>>
    /\ ret.out[1].name = "Occultation"
    /\ ret.ev = arg[1]

\* the event has a timestamp Time() parses, coordinates and an astronomy answer
Evaluable(ev) ==
    /\ parse_dt_str(ev) # <<>>
    /\ TimeParses(parse_dt_str(ev))
    /\ \/ ev.ra_star_deg.kind = "num" /\ ev.dec_star_deg.kind = "num"
       \/ ev.ra_target_deg.kind = "num" /\ ev.dec_target_deg.kind = "num"
       \/ ev.ra_deg.kind = "num" /\ ev.dec_deg.kind = "num"
    /\ ev.sky.ok

WithinThreshold(ev, t) ==
    ev.sky.alt >= thresholds[t][1] /\ ev.sky.sun <= thresholds[t][2]

C16_FailsClosed ==
    (pc = "ret" /\ ret.fn = "filter_visible") =>
        \A t \in 1..Len(thresholds) :
            /\ \A k \in 1..Len(ret.out[t]) : Evaluable(ret.out[t][k])
            /\ \A i, j \in 1..Len(arg) :
                (/\ i < j
                 /\ ~Evaluable(arg[i])
                 /\ Evaluable(arg[j])
                 /\ Instant(parse_dt_str(arg[j])) > ret.now
                 /\ WithinThreshold(arg[j], t)) => arg[j] \in Range(ret.out[t])

\* an event without timestamp, then one whose astronomy computation fails,
\* then a visible one: only the last is kept
C16_Witness ==
    /\ pc = "ret"
    /\ ret.fn = "filter_visible"
    /\ Len(arg) = 3
    /\ parse_dt_str(arg[1]) = <<>>
    /\ ~arg[2].sky.ok
    /\ ret.out[1] = <<arg[3]>>

BothNum(ev, ra_k, dec_k) == ev[ra_k].kind = "num" /\ ev[dec_k].kind = "num"

\* C18: the star pair is returned whenever both its keys hold numbers,
\* whatever the other keys hold; otherwise the target pair if both its keys
\* hold numbers; otherwise the generic pair; a pair with a missing or
\* malformed member is passed over; the result is absent exactly when no pair
\* holds two numbers.
C18_FirstNumericPairWins ==
    (pc = "ret" /\ ret.fn = "parse_ra_dec") =>
        LET ev == ret.ev
            out == ret.out
            star == BothNum(ev, "ra_star_deg", "dec_star_deg")
            target == BothNum(ev, "ra_target_deg", "dec_target_deg")
            generic == BothNum(ev, "ra_deg", "dec_deg")
        IN
        /\ star => (out.ok /\ out.ra = ev.ra_star_deg.v /\ out.dec = ev.dec_star_deg.v)
        /\ (~star /\ target) =>
              (out.ok /\ out.ra = ev.ra_target_deg.v /\ out.dec = ev.dec_target_deg.v)
        /\ (~star /\ ~target /\ generic) =>
              (out.ok /\ out.ra = ev.ra_deg.v /\ out.dec = ev.dec_deg.v)
        /\ ~out.ok <=> (~star /\ ~target /\ ~generic)

\* both pairs hold numbers: the star pair; and reached too, a malformed star
\* declination with a numeric target pair gives the target pair
C18_Witness ==
    /\ pc = "ret"
    /\ ret.fn = "parse_ra_dec"
    /\ ret.ev.ra_star_deg.kind = "num"
    /\ ret.ev.dec_star_deg.kind = "bad"
    /\ BothNum(ret.ev, "ra_target_deg", "dec_target_deg")
    /\ BothNum(ret.ev, "ra_deg", "dec_deg")
    /\ ret.out = [ok |-> TRUE, ra |-> 3, dec |-> 4]

\* C20: one pagination attempt issues at most max_pages requests, whatever
\* the server answers.
C20_AtMostMaxPagesRequests ==
    ret.fn = "try_once" => ret.requests <= max_pages
====
